---- MODULE Spec2Model ----
(***************************************************************************)
(* The User model of server/models/user.js: the generic update pipeline,   *)
(* the privileged direct update, creation, the read operations and the     *)
(* change-diff helper, over a record store with Prisma's semantics.        *)
(***************************************************************************)
EXTENDS Integers, Sequences, FiniteSets, TLC

(***************************************************************************)
(* JavaScript values.  A value is <<tag, chars>>: its type tag and its     *)
(* string form (what String(v) and `${v}` produce) as a sequence of        *)
(* one-character strings, so that lengths and substrings are computed.     *)
(***************************************************************************)
Str(cs) == <<"str", cs>>

DigitChars == <<"0", "1", "2", "3", "4", "5", "6", "7", "8", "9">>

RECURSIVE Digits(_)
Digits(n) ==
  IF n < 10 THEN <<DigitChars[n + 1]>>
  ELSE Digits(n \div 10) \o <<DigitChars[(n % 10) + 1]>>

Num(n) == <<"num", Digits(n)>>

Bool(b) == <<"bool", IF b THEN <<"t", "r", "u", "e">> ELSE <<"f", "a", "l", "s", "e">>>>

Undefined == <<"undef", <<"u", "n", "d", "e", "f", "i", "n", "e", "d">>>>

Null == <<"null", <<"n", "u", "l", "l">>>>

\* String(value): the string form, typed as a string.
String(value) == Str(value[2])

\* Boolean(value): every value is truthy except "", 0, false, undefined, null.
Boolean(value) == value \notin {Str(<<>>), Num(0), Bool(FALSE), Undefined, Null}

\* Number(b) of a boolean b.
Number(b) == IF b THEN Num(1) ELSE Num(0)

\* s contains sub as a contiguous substring.
Contains(s, sub) ==
  \E i \in 0..(Len(s) - Len(sub)) : SubSeq(s, i + 1, i + Len(sub)) = sub

Rep(n) == [i \in 1..n |-> "a"]

(***************************************************************************)
(* Field Policy.                                                           *)
(***************************************************************************)
writable == {"username", "password", "pfpFilename", "role", "suspended"}

UsernameMax == 100
UsernameMin == 2

MsgTooLong == "Username cannot be longer than 100 characters"
MsgTooShort == "Username must be at least 2 characters"

\* A variant whose upper bound is off by one.
validationsUsernameLong(newValue) ==
  LET v == IF newValue = Undefined THEN Str(<<>>) ELSE newValue IN
  IF Len(String(v)[2]) >= UsernameMax THEN [threw |-> TRUE, error |-> MsgTooLong, value |-> Null]
  ELSE IF Len(String(v)[2]) < UsernameMin THEN [threw |-> TRUE, error |-> MsgTooShort, value |-> Null]
  ELSE [threw |-> FALSE, error |-> "null", value |-> String(v)]

\* validations.username(newValue = ""): the validated string, or a throw.
validationsUsername(newValue) ==
  LET v == IF newValue = Undefined THEN Str(<<>>) ELSE newValue IN
  IF Len(String(v)[2]) > UsernameMax THEN [threw |-> TRUE, error |-> MsgTooLong, value |-> Null]
  ELSE IF Len(String(v)[2]) < UsernameMin THEN [threw |-> TRUE, error |-> MsgTooShort, value |-> Null]
  ELSE [threw |-> FALSE, error |-> "null", value |-> String(v)]

validated == {"username"}

\* A variant that stores the value as submitted.
castColumnValueRaw(key, value) == value

\* castColumnValue(key, value)

castColumnValue(key, value) ==
  IF key = "suspended" THEN Number(Boolean(value)) ELSE String(value)

\* A variant that strips nothing.
filterFieldsNone(user) == user

\* filterFields(user): the record without its password field.

filterFields(user) == [k \in DOMAIN user \ {"password"} |-> user[k]]

(***************************************************************************)
(* Change Diff Logger.                                                     *)
(***************************************************************************)
sensitiveFields == {"password"}

Prop(obj, key) == IF key \in DOMAIN obj THEN obj[key] ELSE Undefined

Arrow == <<" ", "=", ">", " ">>

\* A variant with no sensitive field.
loggedChangesAll(updates, prev) ==
  [key \in {k \in DOMAIN updates : updates[k] # Prop(prev, k)} |->
     Str(Prop(prev, key)[2] \o Arrow \o updates[key][2])]

\* loggedChanges(updates, prev): key -> "before => after" of the changed keys.
loggedChanges(updates, prev) ==
  [key \in {k \in DOMAIN updates :
              k \notin sensitiveFields /\ updates[k] # Prop(prev, k)} |->
     Str(Prop(prev, key)[2] \o Arrow \o updates[key][2])]

(***************************************************************************)
(* Credential Hasher (bcrypt) and the password-complexity check.           *)
(***************************************************************************)
Salts == {"s1", "s2"}

\* The digest of a string: every character replaced by an opaque symbol.
Scramble(cs) == [i \in 1..Len(cs) |-> "#" \o cs[i]]

\* bcrypt.hashSync(data, 10): a salted hash string; throws unless data is a string.
hashSync(data, salt) ==
  IF data[1] = "str"
  THEN [threw |-> FALSE, error |-> "null",
        value |-> Str(<<"$", "2", "b", "$", salt, "$">> \o Scramble(data[2]))]
  ELSE [threw |-> TRUE, error |-> "data and salt arguments required", value |-> Null]

IsHash(v) == v[1] = "str" /\ Len(v[2]) >= 6 /\ SubSeq(v[2], 1, 4) = <<"$", "2", "b", "$">>

WeakPw == Str(<<"w", "k">>)
StrongPw == Str(<<"S", "t", "r", "0", "n", "g", "!">>)
CreatePw == Str(<<"x">>)

MsgWeak == "Password does not meet the complexity policy"

\* this.checkPasswordComplexity(passwordInput): {checkedOK, error}.  The method is
\* not part of user.js; it is the pass/fail gate of the specification.
checkPasswordComplexity(passwordInput) ==
  IF passwordInput = WeakPw
  THEN [checkedOK |-> FALSE, error |-> MsgWeak]
  ELSE [checkedOK |-> TRUE, error |-> "null"]

(***************************************************************************)
(* Record Store (prisma.users).  The store maps the id a row was created   *)
(* with to the row; a row is a map from field names to values.             *)
(***************************************************************************)
MaxUsers == 2

Fields == {"id", "username", "password", "pfpFilename", "role", "suspended"}

MsgStore == "Can't reach database server"
MsgUnique == "Unique constraint failed"
MsgNoRecord == "Record to update not found."
MsgUnknownArg == "Unknown argument"

\* The integer a numeric value stands for.
ToInt(v) == CHOOSE n \in 0..(MaxUsers + 2) : Num(n) = v

IdOf(row) == ToInt(row["id"])

Matches(row, clause) ==
  \A f \in DOMAIN clause : f \in DOMAIN row /\ row[f] = clause[f]

Matching(st, clause) == {k \in DOMAIN st : Matches(st[k], clause)}

\* The keys of ks ordered by the rows' current id.
RECURSIVE ById(_, _)
ById(st, ks) ==
  IF ks = {} THEN <<>>
  ELSE LET k == CHOOSE k \in ks : \A j \in ks : IdOf(st[k]) <= IdOf(st[j])
       IN <<k>> \o ById(st, ks \ {k})

Taken(st, except, f, v) == \E j \in DOMAIN st \ except : st[j][f] = v

storeFindMany(st, clause, limit, fail) ==
  IF fail THEN [ok |-> FALSE, error |-> MsgStore, rows |-> <<>>]
  ELSE LET ks == ById(st, Matching(st, clause))
           n == IF limit = Null \/ Len(ks) < ToInt(limit) THEN Len(ks) ELSE ToInt(limit)
       IN [ok |-> TRUE, error |-> "null", rows |-> [i \in 1..n |-> st[ks[i]]]]

storeFindFirst(st, clause, fail) == storeFindMany(st, clause, Num(1), fail)

storeCount(st, clause, fail) ==
  IF fail THEN [ok |-> FALSE, error |-> MsgStore, n |-> 0]
  ELSE [ok |-> TRUE, error |-> "null", n |-> Cardinality(Matching(st, clause))]

storeDeleteMany(st, clause, fail) ==
  IF fail THEN [ok |-> FALSE, error |-> MsgStore, store |-> st]
  ELSE [ok |-> TRUE, error |-> "null",
        store |-> [k \in DOMAIN st \ Matching(st, clause) |-> st[k]]]

storeCreate(st, nid, data, fail) ==
  LET defaults == [f \in Fields |->
                     CASE f = "id" -> Num(nid)
                       [] f = "suspended" -> Num(0)
                       [] f = "role" -> Str(<<"d", "e", "f", "a", "u", "l", "t">>)
                       [] OTHER -> Null]
      row == [f \in Fields |-> IF f \in DOMAIN data THEN data[f] ELSE defaults[f]]
  IN IF fail THEN [ok |-> FALSE, error |-> MsgStore, store |-> st, rows |-> <<>>]
     ELSE IF Taken(st, {}, "username", row["username"]) \/ Taken(st, {}, "id", row["id"])
     THEN [ok |-> FALSE, error |-> MsgUnique, store |-> st, rows |-> <<>>]
     ELSE [ok |-> TRUE, error |-> "null",
           store |-> [k \in DOMAIN st \cup {nid} |-> IF k = nid THEN row ELSE st[k]],
           rows |-> <<row>>]

storeUpdate(st, idv, data, fail) ==
  LET ks == Matching(st, [id |-> idv]) IN
  IF fail THEN [ok |-> FALSE, error |-> MsgStore, store |-> st, rows |-> <<>>]
  ELSE IF ~(DOMAIN data \subseteq Fields)
  THEN [ok |-> FALSE, error |-> MsgUnknownArg, store |-> st, rows |-> <<>>]
  ELSE IF ks = {}
  THEN [ok |-> FALSE, error |-> MsgNoRecord, store |-> st, rows |-> <<>>]
  ELSE LET k == CHOOSE k \in ks : TRUE
           row == [f \in Fields |-> IF f \in DOMAIN data THEN data[f] ELSE st[k][f]]
       IN IF Taken(st, {k}, "username", row["username"]) \/ Taken(st, {k}, "id", row["id"])
          THEN [ok |-> FALSE, error |-> MsgUnique, store |-> st, rows |-> <<>>]
          ELSE [ok |-> TRUE, error |-> "null",
                store |-> [j \in DOMAIN st |-> IF j = k THEN row ELSE st[j]],
                rows |-> <<row>>]

(***************************************************************************)
(* State: the store, its autoincrement counter, and the calls in flight.   *)
(* A call slot holds one invocation of a User method: its arguments, the   *)
(* position of its async function and, once it settled, how it settled.    *)
(***************************************************************************)
VARIABLES store, nextId, calls

vars == <<store, nextId, calls>>

Slots == {1, 2}

EmptyMap == <<>>

NoResult ==
  [kind |-> "none", success |-> FALSE, error |-> "null", rows |-> <<>>, n |-> 0]

Idle ==
  [pc |-> "idle", op |-> "none", userId |-> 0, input |-> EmptyMap, data |-> EmptyMap,
   limit |-> Null, currentUser |-> <<>>, result |-> NoResult, fetches |-> 0, writes |-> 0]

\* A settled call: the promise resolved with a value, or rejected.
Value(success, error, rows, n) ==
  [kind |-> "value", success |-> success, error |-> error, rows |-> rows, n |-> n]

Thrown(error) ==
  [kind |-> "throw", success |-> FALSE, error |-> error, rows |-> <<>>, n |-> 0]

Settled(op, userId, input, result) ==
  [Idle EXCEPT !.pc = "done", !.op = op, !.userId = userId, !.input = input,
               !.result = result]

Free(s) == calls[s].pc \in {"idle", "done"}

Init ==
  /\ store = EmptyMap
  /\ nextId = 1
  /\ calls = [s \in Slots |-> Idle]

(***************************************************************************)
(* create({username, password, role = "default"})                          *)
(***************************************************************************)
\* Lines 52 and 55: {user, error}.
createResult(user) == Value(TRUE, "null", <<filterFields(user)>>, 0)

create(s, username, password, role, salt, fail) ==
  LET input == [username |-> username, password |-> password, role |-> role]
      hashed == hashSync(password, salt)
      valid == validationsUsername(username)
      data == [username |-> valid.value, password |-> hashed.value,
               role |-> String(IF role = Undefined
                               THEN Str(<<"d", "e", "f", "a", "u", "l", "t">>) ELSE role)]
      made == storeCreate(store, nextId, data, fail)
  IN /\ Free(s)
     /\ nextId <= MaxUsers
     /\ IF hashed.threw
        THEN /\ calls' = [calls EXCEPT ![s] =
                            Settled("create", 0, input, Value(FALSE, hashed.error, <<>>, 0))]
             /\ UNCHANGED <<store, nextId>>
        ELSE IF valid.threw
        THEN /\ calls' = [calls EXCEPT ![s] =
                            Settled("create", 0, input, Value(FALSE, valid.error, <<>>, 0))]
             /\ UNCHANGED <<store, nextId>>
        ELSE IF ~made.ok
        THEN /\ calls' = [calls EXCEPT ![s] =
                            [Settled("create", 0, input, Value(FALSE, made.error, <<>>, 0))
                               EXCEPT !.data = data, !.writes = 1]]
             /\ UNCHANGED <<store, nextId>>
        ELSE /\ store' = made.store
             /\ nextId' = nextId + 1
             /\ calls' = [calls EXCEPT ![s] =
                            [Settled("create", 0, input, createResult(made.rows[1]))
                               EXCEPT !.data = data, !.writes = 1]]

(***************************************************************************)
(* update(userId, updates): an async function with two awaits.             *)
(***************************************************************************)
\* A variant that keeps the keys outside the writable set.
filterUpdatesKeepAll(updates) ==
  [threw |-> FALSE, error |-> "null",
   updates |-> [k \in DOMAIN updates |-> castColumnValue(k, updates[k])]]

\* A variant that runs no validator.
filterUpdatesNoCheck(updates) ==
  [threw |-> FALSE, error |-> "null",
   updates |-> [k \in DOMAIN updates \cap writable |-> castColumnValue(k, updates[k])]]

\* Lines 84-96: keep and cast the writable keys, validate, drop the others.  Only
\* username has a validator, so the order of the keys decides nothing.
filterUpdates(updates) ==
  LET keys == DOMAIN updates \cap writable
      cast == [k \in keys |-> castColumnValue(k, updates[k])]
      bad == {k \in keys \cap validated : validationsUsername(cast[k]).threw}
  IN IF bad # {}
     THEN [threw |-> TRUE, error |-> validationsUsername(cast["username"]).error,
           updates |-> EmptyMap]
     ELSE [threw |-> FALSE, error |-> "null",
           updates |-> [k \in keys |->
                          IF k \in validated THEN validationsUsername(cast[k]).value
                          ELSE cast[k]]]

MsgNoId == "No user id provided for update"
MsgNotFound == "User not found"
MsgNoUpdates == "No valid updates applied."

Fail(c, error) ==
  [c EXCEPT !.pc = "done", !.result = Value(FALSE, error, <<>>, 0)]

\* Line 76, then the call of findUnique is issued.
updateCall(s, userId, updates) ==
  /\ Free(s)
  /\ LET c == [Idle EXCEPT !.op = "update", !.userId = userId, !.input = updates]
     IN calls' = [calls EXCEPT ![s] =
                    IF userId = 0 THEN Fail(c, MsgNoId) ELSE [c EXCEPT !.pc = "fetch"]]
  /\ UNCHANGED <<store, nextId>>

\* prisma.users.findUnique({where: {id: parseInt(userId)}}) runs in the store.
updateFetch(s, fail) ==
  LET c == calls[s]
      found == storeFindFirst(store, [id |-> Num(c.userId)], fail)
  IN /\ c.op = "update" /\ c.pc = "fetch"
     /\ calls' = [calls EXCEPT ![s] =
                    IF found.ok
                    THEN [c EXCEPT !.pc = "filter", !.currentUser = found.rows,
                                   !.fetches = c.fetches + 1]
                    ELSE [Fail(c, found.error) EXCEPT !.fetches = c.fetches + 1]]
     /\ UNCHANGED <<store, nextId>>

\* A variant that stores the password as submitted.
passwordStepPlain(updates, salt) ==
  [failed |-> FALSE, error |-> "null", updates |-> updates]

\* Lines 101-111: the password branch.
passwordStep(updates, salt) ==
  IF "password" \in DOMAIN updates
  THEN LET passwordCheck == checkPasswordComplexity(updates["password"]) IN
       IF ~passwordCheck.checkedOK
       THEN [failed |-> TRUE, error |-> passwordCheck.error, updates |-> updates]
       ELSE [failed |-> FALSE, error |-> "null",
             updates |-> [updates EXCEPT !["password"] = hashSync(updates["password"], salt).value]]
  ELSE [failed |-> FALSE, error |-> "null", updates |-> updates]

\* Lines 80-112: the continuation of the fetch, up to the call of prisma.users.update.
updateFilter(s, salt) ==
  LET c == calls[s]
      f == filterUpdates(c.input)
      p == passwordStep(f.updates, salt)
  IN /\ c.op = "update" /\ c.pc = "filter"
     /\ calls' = [calls EXCEPT ![s] =
                    IF c.currentUser = <<>> THEN Fail(c, MsgNotFound)
                    ELSE IF f.threw THEN Fail(c, f.error)
                    ELSE IF DOMAIN f.updates = {} THEN Fail(c, MsgNoUpdates)
                    ELSE IF p.failed THEN Fail(c, p.error)
                    ELSE [c EXCEPT !.pc = "persist", !.data = p.updates]]
     /\ UNCHANGED <<store, nextId>>

\* A variant that writes the fetched record back with the updates applied.
persistDataWhole(currentUser, updates) ==
  [f \in (DOMAIN currentUser[1] \ {"id"}) \cup DOMAIN updates |->
     IF f \in DOMAIN updates THEN updates[f] ELSE currentUser[1][f]]

\* Line 115: the data of the one store call is the updates map.
persistData(currentUser, updates) == updates

\* prisma.users.update({where: {id: parseInt(userId)}, data: updates}) runs in the
\* store, and the function returns.
updatePersist(s, fail) ==
  LET c == calls[s]
      r == storeUpdate(store, Num(c.userId), persistData(c.currentUser, c.data), fail)
  IN /\ c.op = "update" /\ c.pc = "persist"
     /\ store' = r.store
     /\ calls' = [calls EXCEPT ![s] =
                    [c EXCEPT !.pc = "done", !.writes = c.writes + 1,
                              !.result = Value(r.ok, r.error, <<>>, 0)]]
     /\ UNCHANGED nextId

(***************************************************************************)
(* _update(id, data): the privileged direct update.                        *)
(***************************************************************************)
_update(s, id, data, fail) ==
  LET r == storeUpdate(store, Num(id), data, fail)
      moved == r.ok /\ IdOf(r.rows[1]) >= nextId
  IN /\ Free(s)
     /\ IF id = 0
        THEN \* Line 128 stands before the try block: its throw rejects the promise.
             /\ calls' = [calls EXCEPT ![s] = Settled("_update", id, data, Thrown(MsgNoId))]
             /\ UNCHANGED <<store, nextId>>
        ELSE /\ store' = r.store
             /\ nextId' = IF moved THEN IdOf(r.rows[1]) + 1 ELSE nextId
             /\ calls' = [calls EXCEPT ![s] =
                            [Settled("_update", id, data, Value(r.ok, r.error, r.rows, 0))
                               EXCEPT !.data = data, !.writes = 1]]

(***************************************************************************)
(* get, _get, count, delete, where.                                        *)
(***************************************************************************)
get(s, clause, fail) ==
  LET r == storeFindFirst(store, clause, fail)
      user == [i \in 1..Len(r.rows) |-> filterFields(r.rows[i])]
  IN /\ Free(s)
     /\ calls' = [calls EXCEPT ![s] = Settled("get", 0, clause, Value(r.ok, "null", user, 0))]
     /\ UNCHANGED <<store, nextId>>

_get(s, clause, fail) ==
  LET r == storeFindFirst(store, clause, fail)
  IN /\ Free(s)
     /\ calls' = [calls EXCEPT ![s] = Settled("_get", 0, clause, Value(r.ok, "null", r.rows, 0))]
     /\ UNCHANGED <<store, nextId>>

count(s, clause, fail) ==
  LET r == storeCount(store, clause, fail)
  IN /\ Free(s)
     /\ calls' = [calls EXCEPT ![s] = Settled("count", 0, clause, Value(r.ok, "null", <<>>, r.n))]
     /\ UNCHANGED <<store, nextId>>

delete(s, clause, fail) ==
  LET r == storeDeleteMany(store, clause, fail)
  IN /\ Free(s)
     /\ store' = r.store
     /\ calls' = [calls EXCEPT ![s] = Settled("delete", 0, clause, Value(r.ok, "null", <<>>, 0))]
     /\ UNCHANGED nextId

where(s, clause, limit, fail) ==
  LET r == storeFindMany(store, clause, limit, fail)
      users == [i \in 1..Len(r.rows) |-> filterFields(r.rows[i])]
  IN /\ Free(s)
     /\ calls' = [calls EXCEPT ![s] =
                    [Settled("where", 0, clause, Value(r.ok, "null", users, 0))
                       EXCEPT !.limit = limit]]
     /\ UNCHANGED <<store, nextId>>

\* loggedChanges(updates, prev) called on a fetched record, or with prev = {}.
logChanges(s, updates, prev) ==
  /\ Free(s)
  /\ calls' = [calls EXCEPT ![s] =
                 [Settled("loggedChanges", 0, updates,
                          Value(TRUE, "null", <<loggedChanges(updates, prev)>>, 0))
                    EXCEPT !.currentUser = <<prev>>]]
  /\ UNCHANGED <<store, nextId>>

(***************************************************************************)
(* Inputs.                                                                 *)
(***************************************************************************)
Ab == Str(<<"a", "b">>)
Admin == Str(<<"a", "d", "m", "i", "n">>)
Pfp == Str(<<"p", ".", "p", "n", "g">>)

UsernameArgs == {Undefined, Str(<<"a">>), Ab, Str(Rep(UsernameMax)), Str(Rep(UsernameMax + 1))}

PasswordArgs == {CreatePw, Undefined}

RoleArgs == {Undefined}

UserIdArgs == 0..MaxUsers

UpdateArgs ==
  << EmptyMap,
     [id |-> Num(MaxUsers + 1), createdAt |-> Str(<<"n", "o", "w">>)],
     [username |-> Str(<<"a">>)],
     [username |-> Num(7)],
     [username |-> Str(<<"a">>), suspended |-> Str(<<"t", "r", "u", "e">>)],
     [username |-> Str(Rep(UsernameMax + 1))],
     [username |-> Str(Rep(UsernameMax)), id |-> Num(MaxUsers + 1)],
     [username |-> Ab],
     [suspended |-> Str(<<"t", "r", "u", "e">>)],
     [suspended |-> Str(<<>>)],
     [suspended |-> Num(0)],
     [suspended |-> Bool(FALSE), id |-> Num(MaxUsers + 1)],
     [password |-> StrongPw],
     [password |-> WeakPw, suspended |-> Num(1)],
     [role |-> Admin, pfpFilename |-> Pfp] >>

\* The maps the sequential client submits: those of UpdateArgs that leave
\* suspended, role and pfpFilename alone.
SeqUpdateArgs == {i \in 1..Len(UpdateArgs) :
                    DOMAIN UpdateArgs[i] \cap {"suspended", "role", "pfpFilename"} = {}}

DirectArgs ==
  << [role |-> Str(<<"d", "e", "f", "a", "u", "l", "t">>)],
     [id |-> Num(MaxUsers + 1)] >>

Clauses ==
  << EmptyMap, [username |-> Ab] >>

LimitArgs == {Null, Num(1)}

DiffArgs ==
  << [username |-> StrongPw, password |-> StrongPw],
     [username |-> Ab, password |-> hashSync(StrongPw, "s1").value],
     [role |-> Admin] >>

Prevs == <<EmptyMap>> \o [i \in 1..Len(ById(store, DOMAIN store)) |->
                             store[ById(store, DOMAIN store)[i]]]

(***************************************************************************)
(* A client that awaits each call before it makes the next one.            *)
(***************************************************************************)
Next ==
  \/ \E u \in UsernameArgs, p \in PasswordArgs, r \in RoleArgs, salt \in Salts,
        fail \in BOOLEAN : create(1, u, p, r, salt, fail)
  \/ \E id \in UserIdArgs, i \in SeqUpdateArgs : updateCall(1, id, UpdateArgs[i])
  \/ \E fail \in BOOLEAN : updateFetch(1, fail)
  \/ \E salt \in Salts : updateFilter(1, salt)
  \/ \E fail \in BOOLEAN : updatePersist(1, fail)
  \/ \E id \in UserIdArgs, i \in 1..Len(DirectArgs), fail \in BOOLEAN :
        _update(1, id, DirectArgs[i], fail)
  \/ \E i \in 1..Len(Clauses), fail \in BOOLEAN : get(1, Clauses[i], fail)
  \/ \E i \in 1..Len(Clauses), fail \in BOOLEAN : _get(1, Clauses[i], fail)
  \/ \E i \in 1..Len(Clauses), fail \in BOOLEAN : count(1, Clauses[i], fail)
  \/ \E i \in 1..Len(Clauses), fail \in BOOLEAN : delete(1, Clauses[i], fail)
  \/ \E i \in 1..Len(Clauses), l \in LimitArgs, fail \in BOOLEAN : where(1, Clauses[i], l, fail)
  \/ \E i \in 1..Len(DiffArgs), j \in 1..Len(Prevs) : logChanges(1, DiffArgs[i], Prevs[j])

Spec == Init /\ [][Next]_vars

(***************************************************************************)
(* Two calls in flight at once on a stored user, each slot making one call: *)
(* an update, whose steps interleave with the other call's, or a delete.   *)
(***************************************************************************)
InitConc ==
  /\ \E salt \in Salts :
       store = storeCreate(EmptyMap, 1,
                           [username |-> Ab, password |-> hashSync(CreatePw, salt).value],
                           FALSE).store
  /\ nextId = 2
  /\ calls = [s \in Slots |-> Idle]

NextConc ==
  \E s \in Slots :
    \/ \E id \in UserIdArgs, i \in 1..Len(UpdateArgs) :
          calls[s].pc = "idle" /\ updateCall(s, id, UpdateArgs[i])
    \/ \E fail \in BOOLEAN : updateFetch(s, fail)
    \/ \E salt \in Salts : updateFilter(s, salt)
    \/ \E fail \in BOOLEAN : updatePersist(s, fail)
    \/ \E i \in 1..Len(Clauses), fail \in BOOLEAN :
          calls[s].pc = "idle" /\ delete(s, Clauses[i], fail)

SpecConc == InitConc /\ [][NextConc]_vars

(***************************************************************************)
(* Properties.                                                             *)
(***************************************************************************)
Done(s) == calls[s].pc = "done"

Returned(s) == Done(s) /\ calls[s].result.kind = "value"

HasPassword(rows) == \E i \in 1..Len(rows) : "password" \in DOMAIN rows[i]

\* C1 as stated: no value returned by create, update, _update, get, where, count or
\* delete holds a password field; only _get may return it.
C1_OnlyGetRawReturnsPassword ==
  \A s \in Slots :
    (Returned(s) /\ calls[s].op # "_get") => ~HasPassword(calls[s].result.rows)

\* C1 amended: no value returned by create, update, get, where, count or delete holds
\* a password field; _get and _update return the stored record whole, password
\* included.
C1_PasswordStripped ==
  \A s \in Slots :
    /\ (Returned(s) /\ calls[s].op \notin {"_get", "_update"})
          => ~HasPassword(calls[s].result.rows)
    /\ (Returned(s) /\ calls[s].op \in {"_get", "_update"})
          => \A i \in 1..Len(calls[s].result.rows) :
                \E k \in DOMAIN store : calls[s].result.rows[i] = store[k]

C1_Witness ==
  \E s \in Slots :
    /\ Returned(s) /\ calls[s].op = "where"
    /\ Len(calls[s].result.rows) = 2
    /\ \A k \in DOMAIN store : "password" \in DOMAIN store[k]

\* C2: every public operation settles by returning a value, never by a throw or a
\* rejected promise.
C2_NeverThrows ==
  \A s \in Slots : Done(s) => calls[s].result.kind = "value"

\* What the claims call an invalid username, a weak password and a falsy input.
NameLength(v) == Len(String(v)[2])

InvalidName(input) ==
  "username" \in DOMAIN input /\ NameLength(input["username"]) \notin UsernameMin..UsernameMax

WeakPassword(input) ==
  "password" \in DOMAIN input /\ String(input["password"]) = WeakPw

NoWritableKey(input) == DOMAIN input \cap writable = {}

ValidRequest(input) ==
  ~InvalidName(input) /\ ~NoWritableKey(input) /\ ~WeakPassword(input)

FalsyInputs == {Str(<<>>), Num(0), Bool(FALSE)}

RowOf(st, userId) == CHOOSE k \in DOMAIN st : st[k]["id"] = Num(userId)

HasRow(st, userId) == \E k \in DOMAIN st : st[k]["id"] = Num(userId)

C3_Step(s) ==
  LET c == calls[s]
      d == calls'[s]
  IN (d.op = "update" /\ d # c) =>
       /\ (d.pc # "done" \/ ~d.result.success) => store' = store
       /\ (c.pc = "filter" /\ (\/ c.currentUser = <<>>
                               \/ InvalidName(c.input)
                               \/ NoWritableKey(c.input)
                               \/ WeakPassword(c.input)))
            => /\ d.pc = "done" /\ ~d.result.success /\ d.writes = 0
               /\ (c.currentUser = <<>> => d.result.error = MsgNotFound)
       /\ (d.pc = "done" /\ d.result.error \in {MsgNotFound, MsgTooLong, MsgTooShort,
                                                MsgNoUpdates, MsgWeak, MsgNoId})
            => d.writes = 0
       /\ (d.pc = "done" /\ d.result.success)
            => /\ c.pc = "persist" /\ c.fetches = 1 /\ c.writes = 0 /\ d.writes = 1
               /\ DOMAIN store' = DOMAIN store
               /\ HasRow(store, c.userId)
               /\ \A k \in DOMAIN store :
                    \A f \in Fields :
                      store'[k][f] = IF k = RowOf(store, c.userId) /\ f \in DOMAIN c.data
                                     THEN c.data[f] ELSE store[k][f]

\* C3: an update that returns success:false leaves the store as it was; for a
\* nonexistent id ("User not found"), a validator failure, no writable key or a weak
\* password the store's update-by-id is never invoked; an update that returns
\* success:true invoked it exactly once, after the fetch, with the whole field map.
C3_AtomicUpdate == [][\A s \in Slots : C3_Step(s)]_vars

C3_Witness ==
  \E s \in Slots :
    /\ Done(s) /\ calls[s].op = "update" /\ calls[s].result.success
    /\ Cardinality(DOMAIN calls[s].data) = 2
    /\ calls[s].writes = 1
    /\ \E r \in Slots : Done(r) /\ calls[r].result.error = MsgNotFound

\* C4: every key outside the writable set is dropped without an error, so the field
\* map passed to update-by-id holds exactly the writable keys of the request; a
\* request with no writable key is rejected with the empty-update error and writes
\* nothing.
C4_WritableOnly ==
  \A s \in Slots :
    LET c == calls[s] IN
    c.op = "update" =>
      /\ (c.pc = "persist" \/ c.writes > 0)
           => /\ DOMAIN c.data \subseteq writable
              /\ DOMAIN c.data = DOMAIN c.input \cap writable
      /\ (c.pc = "done" /\ c.currentUser # <<>> /\ NoWritableKey(c.input))
           => /\ c.result = Value(FALSE, MsgNoUpdates, <<>>, 0)
              /\ c.writes = 0

C4_Witness ==
  \E s \in Slots :
    /\ Done(s) /\ calls[s].op = "update" /\ calls[s].result.success
    /\ "id" \in DOMAIN calls[s].input
    /\ calls[s].writes = 1

Plaintexts == {CreatePw, StrongPw, WeakPw}

\* C5: a password update that passes the complexity check succeeds and persists the
\* hash of the plaintext, so _get returns a password different from the plaintext;
\* after any sequence of create and update calls no stored password equals a
\* plaintext a caller submitted.
C5_NeverPlaintext ==
  /\ \A k \in DOMAIN store :
       IsHash(store[k]["password"]) /\ store[k]["password"] \notin Plaintexts
  /\ \A s \in Slots :
       LET c == calls[s] IN
       /\ (c.op = "update" /\ c.pc = "done" /\ c.currentUser # <<>>
             /\ "password" \in DOMAIN c.input /\ ValidRequest(c.input)
             /\ c.result.error \notin {MsgStore, MsgUnique})
            => /\ c.result.success
               /\ \E salt \in Salts :
                    c.data["password"] = hashSync(String(c.input["password"]), salt).value
               /\ c.data["password"] # c.input["password"]
               /\ store[RowOf(store, c.userId)]["password"] = c.data["password"]
       /\ (c.op = "_get" /\ c.pc = "done")
            => \A i \in 1..Len(c.result.rows) :
                  c.result.rows[i]["password"] \notin Plaintexts

C5_Witness ==
  \E s \in Slots :
    /\ Done(s) /\ calls[s].op = "update" /\ calls[s].result.success
    /\ "password" \in DOMAIN calls[s].input
    /\ calls[s].input["password"] = StrongPw

\* C6: two update calls on the same existing id with disjoint sets of writable
\* fields, their steps interleaved in any order: both return success:true (when
\* both requests are valid and the store fails neither), and the stored record then
\* holds the value each call submitted for each of its fields.
C6_DisjointUnion ==
  \A s1 \in Slots : \A s2 \in Slots \ {s1} :
    LET c1 == calls[s1]
        c2 == calls[s2]
    IN (/\ c1.pc = "done" /\ c2.pc = "done"
        /\ c1.op = "update" /\ c2.op = "update"
        /\ c1.userId = c2.userId
        /\ HasRow(store, c1.userId)
        /\ (DOMAIN c1.input \cap writable) \cap (DOMAIN c2.input \cap writable) = {})
       => /\ (/\ ValidRequest(c1.input) /\ ValidRequest(c2.input)
              /\ c1.result.error # MsgStore /\ c2.result.error # MsgStore)
               => (c1.result.success /\ c2.result.success)
          /\ (c1.result.success /\ c2.result.success)
               => LET row == store[RowOf(store, c1.userId)] IN
                  /\ \A f \in DOMAIN c1.input \cap writable : row[f] = c1.data[f]
                  /\ \A f \in DOMAIN c2.input \cap writable : row[f] = c2.data[f]

C6_Witness ==
  /\ \A s \in Slots : Done(s) /\ calls[s].result.success
  /\ "username" \in DOMAIN calls[1].data
  /\ "password" \in DOMAIN calls[2].data

\* C7 as stated: after any sequence of update and _update calls, whatever their
\* field maps, every record has the id it was created with.
C7_IdNeverChanges ==
  \A k \in DOMAIN store : store[k]["id"] = Num(k)

\* C7 amended: update never changes a record's id, an id key in its field map being
\* dropped; a record's id changes only by an _update whose field map holds an id key.
C7_IdChangesOnlyByDirectSet ==
  [][(\E k \in DOMAIN store \cap DOMAIN store' : store'[k]["id"] # store[k]["id"])
       => \E s \in Slots :
            /\ calls'[s] # calls[s]
            /\ calls'[s].op = "_update"
            /\ "id" \in DOMAIN calls'[s].data]_vars

C7_Witness ==
  \E s \in Slots :
    /\ Done(s) /\ calls[s].op = "update" /\ calls[s].result.success
    /\ "id" \in DOMAIN calls[s].input
    /\ calls[s].input["id"] # Num(calls[s].userId)
    /\ store[RowOf(store, calls[s].userId)]["username"] = calls[s].data["username"]

\* The string form of the username a call submits; create reads a missing username
\* as the empty string.
SubmittedName(c) ==
  IF c.input["username"] = Undefined THEN <<>> ELSE String(c.input["username"])[2]

\* C8: in create and in update a username is accepted exactly when its string form
\* has length 2 to 100; a shorter one is rejected with the minimum-length message, a
\* longer one with the maximum-length message, the operation returns an error result,
\* and a rejected username is never written to the store.
C8_UsernameLength ==
  /\ \A k \in DOMAIN store :
       Len(store[k]["username"][2]) \in UsernameMin..UsernameMax
  /\ \A s \in Slots :
       LET c == calls[s]
           reached == \/ c.op = "create" /\ c.input["password"][1] = "str"
                      \/ c.op = "update" /\ c.currentUser # <<>>
       IN (c.pc = "done" /\ c.op \in {"create", "update"} /\ "username" \in DOMAIN c.input)
          => /\ Len(SubmittedName(c)) < UsernameMin
                  => /\ ~c.result.success /\ c.result.rows = <<>> /\ c.writes = 0
                     /\ reached => c.result.error = MsgTooShort
             /\ Len(SubmittedName(c)) > UsernameMax
                  => /\ ~c.result.success /\ c.result.rows = <<>> /\ c.writes = 0
                     /\ reached => c.result.error = MsgTooLong
             /\ (Len(SubmittedName(c)) \in UsernameMin..UsernameMax /\ reached)
                  => /\ c.result.error \notin {MsgTooShort, MsgTooLong}
                     /\ c.writes = 1
                     /\ c.result.error \notin {MsgStore, MsgUnique}
                          => /\ c.result.success
                             /\ \E k \in DOMAIN store :
                                  store[k]["username"] = Str(SubmittedName(c))

C8_Witness ==
  /\ \E k \in DOMAIN store : Len(store[k]["username"][2]) = UsernameMax
  /\ \E s \in Slots :
       /\ Done(s) /\ calls[s].op = "update"
       /\ "username" \in DOMAIN calls[s].input
       /\ Len(SubmittedName(calls[s])) = UsernameMax + 1
       /\ calls[s].result.error = MsgTooLong

C9_Step(s) ==
  LET c == calls[s]
      d == calls'[s]
  IN (c.op = "update" /\ c.pc = "persist" /\ d.pc = "done" /\ d.result.success) =>
       LET row == store'[RowOf(store', c.userId)] IN
       /\ row["suspended"] \in {Num(0), Num(1)}
       /\ "suspended" \in DOMAIN c.input
            => row["suspended"] = IF c.input["suspended"] \in FalsyInputs
                                  THEN Num(0) ELSE Num(1)
       /\ \A f \in (DOMAIN c.input \cap writable) \ {"suspended"} :
            /\ row[f][1] = "str"
            /\ f # "password" => row[f][2] = c.input[f][2]

\* C9: in a successful update the persisted suspended is the integer 1 for a truthy
\* input and 0 for a falsy one (empty string, 0, false), so it is always 0 or 1; every
\* other writable field is persisted as a string.
C9_SuspendedCoerced == [][\A s \in Slots : C9_Step(s)]_vars

C9_Witness ==
  \E s \in Slots :
    /\ Done(s) /\ calls[s].op = "update" /\ calls[s].result.success
    /\ "suspended" \in DOMAIN calls[s].input
    /\ calls[s].input["suspended"] = Str(<<"t", "r", "u", "e">>)
    /\ store[RowOf(store, calls[s].userId)]["suspended"] = Num(1)

\* The password values a diff call has in hand: the new one and the stored one.
Secrets(c) ==
  (IF "password" \in DOMAIN c.input THEN {c.input["password"][2]} ELSE {}) \cup
  (IF "password" \in DOMAIN c.currentUser[1]
   THEN {c.currentUser[1]["password"][2]} ELSE {})

IsDiff(c) == c.pc = "done" /\ c.op = "loggedChanges" /\ "password" \in DOMAIN c.input

\* C10 as stated: the diff of an update map that changes the password has no
\* password key, and none of its values contains the old or new password or hash
\* under any key.
C10_NoSecretInDiff ==
  \A s \in Slots :
    IsDiff(calls[s]) =>
      LET changes == calls[s].result.rows[1] IN
      /\ "password" \notin DOMAIN changes
      /\ \A k \in DOMAIN changes :
           \A secret \in Secrets(calls[s]) : ~Contains(changes[k][2], secret)

C10_Step(s) ==
  LET c == calls'[s]
      changes == c.result.rows[1]
      prev == c.currentUser[1]
  IN (c.pc = "done" /\ c.op = "loggedChanges" /\ c # calls[s]) =>
       /\ store' = store
       /\ "password" \notin DOMAIN changes
       /\ DOMAIN changes =
            {k \in DOMAIN c.input \ {"password"} : c.input[k] # Prop(prev, k)}
       /\ \A k \in DOMAIN changes :
            /\ changes[k] = Str(Prop(prev, k)[2] \o Arrow \o c.input[k][2])
            /\ \A secret \in Secrets(c) :
                 Contains(changes[k][2], secret)
                   => \/ Contains(c.input[k][2], secret)
                      \/ Contains(Prop(prev, k)[2], secret)

\* C10 amended: the diff has no password key; it holds exactly the other keys of the
\* update map whose new value differs from the previous one, each as "before =>
\* after" of that key's own values, so a password or hash value occurs in it only
\* where another field itself carries that value; computing it leaves the store as
\* it was.
C10_PasswordKeyOmitted == [][\A s \in Slots : C10_Step(s)]_vars

C10_Witness ==
  \E s \in Slots :
    /\ IsDiff(calls[s])
    /\ calls[s].currentUser[1] # EmptyMap
    /\ calls[s].input["password"] # calls[s].currentUser[1]["password"]
    /\ DOMAIN calls[s].result.rows[1] = {"username"}

====
